---- MODULE Spec2Model ----
(***************************************************************************)
(* Model of remote_jupyter (src/main.rs): the ConnectionCache registry of  *)
(* SSH tunnels, the Connection life cycle against OS processes, and the    *)
(* command dispatcher run() with its load / operate / save protocol.       *)
(***************************************************************************)
EXTENDS Integers, Sequences, FiniteSets, TLC

VARIABLES
    connections,  \* ConnectionCache.connections: key -> Connection
    alive,        \* OS: the process ids that answer the liveness probe
    clients,      \* OS: the running ssh clients, each named by the process
                  \* id of the shell that started it
    nextPid,      \* OS: the process id the next successful spawn returns
    signalled,    \* OS: the live processes a SIGTERM was delivered to
    file,         \* the cache file $HOME/.remote_jupyter_sessions
    pc,           \* where the running invocation stands; "done" between two
    last          \* what the last operation was, got and did

vars == <<connections, alive, clients, nextPid, signalled, file, pc, last>>

----------------------------------------------------------------------------
(* Bounds and input sets *)

\* Spawns per behaviour: process ids are 1..MaxPid.
MaxPid == 2

\* Option<T>: None is the empty sequence, Some(x) the one-element sequence.
None == << >>

Some(x) == <<x>>

Unwrap(o) == o[1]

Pids == 1..MaxPid

Hosts == {"h1"}

LinkA == "http://localhost:8888/?token=abc123"
LinkB == "http://localhost:8889/?token=def456"
LinkC == "http://localhost:8888/?a=1&token=t2&token=t3"
LinkNoPort == "http://localhost/?token=abc123"
LinkNoToken == "http://localhost:8888/?a=1"
LinkDefaultPort == "http://localhost:80/?token=abc123"
LinkBad == "not a url"

Links == {LinkA, LinkB, LinkC, LinkNoPort, LinkDefaultPort, LinkNoToken,
          LinkBad}

\* Url::parse, Url::port and Url::query_pairs of the url crate on Links.
\* Url::port is None for the default port of the scheme, written or not.
Url_parse(link) ==
    CASE link = LinkA ->
           [ok |-> TRUE, port |-> Some(8888), query |-> << <<"token", "abc123">> >>]
      [] link = LinkB ->
           [ok |-> TRUE, port |-> Some(8889), query |-> << <<"token", "def456">> >>]
      [] link = LinkC ->
           [ok |-> TRUE, port |-> Some(8888),
            query |-> << <<"a", "1">>, <<"token", "t2">>, <<"token", "t3">> >>]
      [] link = LinkNoPort ->
           [ok |-> TRUE, port |-> None, query |-> << <<"token", "abc123">> >>]
      [] link = LinkDefaultPort ->
           [ok |-> TRUE, port |-> None, query |-> << <<"token", "abc123">> >>]
      [] link = LinkNoToken ->
           [ok |-> TRUE, port |-> Some(8888), query |-> << <<"a", "1">> >>]
      [] OTHER ->
           [ok |-> FALSE, port |-> None, query |-> << >>]

----------------------------------------------------------------------------
(* UrlParts and Connection *)

\* The value of the first query pair named "token", None when there is none.
RECURSIVE FirstToken(_)
FirstToken(query) ==
    IF query = << >> THEN None
    ELSE IF Head(query)[1] = "token" THEN Some(Head(query)[2])
    ELSE FirstToken(Tail(query))

UrlParts_parse(link) ==
    LET u == Url_parse(link)
        token == FirstToken(u.query)
    IN IF ~u.ok THEN [res |-> "Panic", port |-> None, token |-> None]
       ELSE IF u.port = None
         THEN [res |-> "InvalidLink", port |-> None, token |-> None]
       ELSE IF token = None
         THEN [res |-> "InvalidLink", port |-> None, token |-> None]
       ELSE [res |-> "Ok", port |-> u.port, token |-> token]

\* Mutant: the key leaves the host out.
format_key_PortOnly(conn) == ToString(conn.port)

format_key(conn) == conn.host \o ":" \o ToString(conn.port)

key_of(host, port) == host \o ":" \o ToString(port)

is_pid_running(w, pid) == pid \in w.alive

status(w, conn) ==
    IF conn.pid = None THEN "Disconnected"
    ELSE IF is_pid_running(w, Unwrap(conn.pid)) THEN "Connected"
    ELSE "Disconnected"

get_pid(w, conn) ==
    IF status(w, conn) = "Disconnected" THEN None ELSE conn.pid

is_alive(w, conn) ==
    IF conn.pid = None THEN FALSE ELSE is_pid_running(w, Unwrap(conn.pid))

\* The OS: the processes pids end.  A shell that was not signalled ends
\* because the ssh client it waited for ended; a shell that ends by the
\* signal leaves its ssh client running.
exit_of(w, pids) ==
    [w EXCEPT !.alive = @ \ pids,
              !.signalled = @ \ pids,
              !.clients = @ \ (pids \ w.signalled)]

\* Connection::new_connection: spawn `sh -c "ssh -Y -N -L ..."`.  The child
\* whose id is returned is the shell; the shell runs the ssh client as a
\* process of its own and waits for it.  orc holds the keys on which the OS
\* call of this operation fails.
Connection_new_connection(w, orc, host, port) ==
    IF key_of(host, port) \in orc
    THEN [w |-> [w EXCEPT !.spawns =
                    Append(@, [host |-> host, port |-> port, pid |-> None])],
          res |-> "SpawnError", pid |-> None]
    ELSE [w |-> [w EXCEPT !.alive = @ \cup {w.nextPid},
                          !.clients = @ \cup {w.nextPid},
                          !.nextPid = @ + 1,
                          !.spawns = Append(@, [host |-> host, port |-> port,
                                                pid |-> Some(w.nextPid)])],
          res |-> "Ok", pid |-> Some(w.nextPid)]

\* Mutant: the entry is built without the process id of the spawn.
Connection_new_NoPid(w, orc, link, host) ==
    LET url_parts == UrlParts_parse(link)
        sp == Connection_new_connection(w, orc, host, Unwrap(url_parts.port))
    IN IF url_parts.res /= "Ok"
       THEN [w |-> w, res |-> url_parts.res, conn |-> None]
       ELSE IF sp.res /= "Ok"
       THEN [w |-> sp.w, res |-> sp.res, conn |-> None]
       ELSE [w |-> sp.w, res |-> "Ok",
             conn |-> [host |-> host, port |-> Unwrap(url_parts.port),
                       link |-> link, pid |-> None,
                       token |-> Unwrap(url_parts.token)]]

Connection_new(w, orc, link, host) ==
    LET url_parts == UrlParts_parse(link)
        sp == Connection_new_connection(w, orc, host, Unwrap(url_parts.port))
    IN IF url_parts.res /= "Ok"
       THEN [w |-> w, res |-> url_parts.res, conn |-> None]
       ELSE IF sp.res /= "Ok"
       THEN [w |-> sp.w, res |-> sp.res, conn |-> None]
       ELSE [w |-> sp.w, res |-> "Ok",
             conn |-> [host |-> host, port |-> Unwrap(url_parts.port),
                       link |-> link, pid |-> sp.pid,
                       token |-> Unwrap(url_parts.token)]]

\* Connection::kill_connection: the `?` on kill() returns before self.pid = None.
kill_connection(w, orc, conn) ==
    IF conn.pid /= None /\ status(w, conn) = "Connected"
    THEN IF format_key(conn) \in orc
         THEN [w |-> [w EXCEPT !.kills =
                         Append(@, [pid |-> Unwrap(conn.pid), ok |-> FALSE])],
               res |-> "SignalError", conn |-> conn]
         ELSE [w |-> [w EXCEPT !.kills =
                         Append(@, [pid |-> Unwrap(conn.pid), ok |-> TRUE]),
                               !.signalled = @ \cup {Unwrap(conn.pid)}],
               res |-> "Ok", conn |-> [conn EXCEPT !.pid = None]]
    ELSE [w |-> w, res |-> "Ok", conn |-> [conn EXCEPT !.pid = None]]

----------------------------------------------------------------------------
(* ConnectionCache: the registry operations.  A world w holds the registry  *)
(* and the OS state an operation reads and changes, with the log of the OS  *)
(* calls the operation made (spawns, kills).                                *)

EmptyMap == [k \in {} |-> None]

MapInsert(m, k, v) == [x \in DOMAIN m \cup {k} |-> IF x = k THEN v ELSE m[x]]

MapRemove(m, k) == [x \in DOMAIN m \ {k} |-> m[x]]

remove_connection(w, key) ==
    IF key \in DOMAIN w.connections
    THEN [w |-> [w EXCEPT !.connections = MapRemove(@, key)],
          res |-> "Ok", conn |-> Some(w.connections[key])]
    ELSE [w |-> w, res |-> "KeyNotFound", conn |-> None]

\* Mutant: the respawned connection is not put back into the registry.
reconnect_NoInsert(w, orc, key) ==
    LET rm == remove_connection(w, key)
        conn == Unwrap(rm.conn)
        nc == Connection_new(rm.w, orc, conn.link, conn.host)
    IN IF rm.res /= "Ok" THEN [w |-> rm.w, res |-> rm.res]
       ELSE IF is_alive(rm.w, conn) THEN [w |-> rm.w, res |-> "Ok"]
       ELSE [w |-> nc.w, res |-> nc.res]

reconnect(w, orc, key) ==
    LET rm == remove_connection(w, key)
        conn == Unwrap(rm.conn)
        nc == Connection_new(rm.w, orc, conn.link, conn.host)
    IN IF rm.res /= "Ok" THEN [w |-> rm.w, res |-> rm.res]
       ELSE IF is_alive(rm.w, conn) THEN [w |-> rm.w, res |-> "Ok"]
       ELSE IF nc.res /= "Ok" THEN [w |-> nc.w, res |-> nc.res]
       ELSE [w |-> [nc.w EXCEPT !.connections = MapInsert(@, key, nc.conn)],
             res |-> "Ok"]

\* Mutant: no contains_key check, an existing entry is overwritten.
new_connection_Overwrite(w, orc, link, host) ==
    LET url_parts == UrlParts_parse(link)
        nc == Connection_new(w, orc, link, host)
    IN IF url_parts.res /= "Ok" THEN [w |-> w, res |-> url_parts.res]
       ELSE IF nc.res /= "Ok" THEN [w |-> nc.w, res |-> nc.res]
       ELSE [w |-> [nc.w EXCEPT !.connections =
                       MapInsert(@, format_key(nc.conn), nc.conn)],
             res |-> "Ok"]

new_connection(w, orc, link, host) ==
    LET url_parts == UrlParts_parse(link)
        key == key_of(host, Unwrap(url_parts.port))
        nc == Connection_new(w, orc, link, host)
    IN IF url_parts.res /= "Ok" THEN [w |-> w, res |-> url_parts.res]
       ELSE IF key \in DOMAIN w.connections THEN [w |-> w, res |-> "DuplicateKey"]
       ELSE IF nc.res /= "Ok" THEN [w |-> nc.w, res |-> nc.res]
       ELSE [w |-> [nc.w EXCEPT !.connections =
                       MapInsert(@, format_key(nc.conn), nc.conn)],
             res |-> "Ok"]

\* Mutant: the entry is removed and its tunnel is not terminated.
drop_connection_NoTerminate(w, orc, key) ==
    IF key \notin DOMAIN w.connections THEN [w |-> w, res |-> "KeyNotFound"]
    ELSE [w |-> [w EXCEPT !.connections = MapRemove(@, key)], res |-> "Ok"]

drop_connection(w, orc, key) ==
    LET removed == [w EXCEPT !.connections = MapRemove(@, key)]
        k == kill_connection(removed, orc, w.connections[key])
    IN IF key \notin DOMAIN w.connections THEN [w |-> w, res |-> "KeyNotFound"]
       ELSE [w |-> k.w, res |-> k.res]

disconnect(w, orc, key) ==
    LET k == kill_connection(w, orc, w.connections[key])
    IN IF key \notin DOMAIN w.connections THEN [w |-> w, res |-> "KeyNotFound"]
       ELSE [w |-> [k.w EXCEPT !.connections = [@ EXCEPT ![key] = k.conn]],
             res |-> k.res]

\* The `for key in keys { op(&key)?; }` loops: keys is the Vec collected from
\* connections.keys(); attempted counts the keys the loop called op on.
RECURSIVE reconnect_loop(_, _, _, _)
reconnect_loop(w, orc, keys, n) ==
    IF keys = << >> THEN [w |-> w, res |-> "Ok", attempted |-> n]
    ELSE LET r == reconnect(w, orc, Head(keys))
         IN IF r.res /= "Ok" THEN [w |-> r.w, res |-> r.res, attempted |-> n + 1]
            ELSE reconnect_loop(r.w, orc, Tail(keys), n + 1)

RECURSIVE drop_loop(_, _, _, _)
drop_loop(w, orc, keys, n) ==
    IF keys = << >> THEN [w |-> w, res |-> "Ok", attempted |-> n]
    ELSE LET r == drop_connection(w, orc, Head(keys))
         IN IF r.res /= "Ok" THEN [w |-> r.w, res |-> r.res, attempted |-> n + 1]
            ELSE drop_loop(r.w, orc, Tail(keys), n + 1)

RECURSIVE disconnect_loop(_, _, _, _)
disconnect_loop(w, orc, keys, n) ==
    IF keys = << >> THEN [w |-> w, res |-> "Ok", attempted |-> n]
    ELSE LET r == disconnect(w, orc, Head(keys))
         IN IF r.res /= "Ok" THEN [w |-> r.w, res |-> r.res, attempted |-> n + 1]
            ELSE disconnect_loop(r.w, orc, Tail(keys), n + 1)

\* Mutant: the loop goes on after a failure and returns the first error.
RECURSIVE drop_loop_Continue(_, _, _, _)
drop_loop_Continue(w, orc, keys, n) ==
    IF keys = << >> THEN [w |-> w, res |-> "Ok", attempted |-> n]
    ELSE LET r == drop_connection(w, orc, Head(keys))
             rest == drop_loop_Continue(r.w, orc, Tail(keys), n + 1)
         IN IF r.res /= "Ok"
            THEN [w |-> rest.w, res |-> r.res, attempted |-> n + 1]
            ELSE rest

drop_all_connections_Continue(w, orc, keys) == drop_loop_Continue(w, orc, keys, 0)

\* keys is connections.keys().cloned().collect(), in the HashMap's order.
reconnect_all(w, orc, keys) == reconnect_loop(w, orc, keys, 0)

drop_all_connections(w, orc, keys) == drop_loop(w, orc, keys, 0)

disconnect_all(w, orc, keys) == disconnect_loop(w, orc, keys, 0)

\* ConnectionCache::list: one printed row per entry; the registry is only
\* read (&self).  A row probes its process twice, in status() for the
\* Status cell and again in get_pid() for the Process ID cell; exits are
\* the processes that end between the two probes of their row.
list(w, exits) ==
    [w |-> [exit_of(w, exits) EXCEPT !.rows =
               [k \in DOMAIN w.connections |->
                   [key |-> k,
                    pid |-> get_pid(exit_of(w, exits), w.connections[k]),
                    status |-> status(w, w.connections[k]),
                    link |-> w.connections[k].link]]],
     res |-> "Ok", attempted |-> 0]

\* The orders a HashMap with these keys may iterate in.
KeyOrders(m) ==
    {s \in [1..Cardinality(DOMAIN m) -> DOMAIN m] :
        \A i, j \in 1..Cardinality(DOMAIN m) : s[i] = s[j] => i = j}

----------------------------------------------------------------------------
(* The cache file: serde_yaml of the mapping, load and save *)

\* The serde_yaml crate is a dependency, not a file of the repository: its
\* documents are modelled after the persisted state the specification
\* describes, a mapping from key to the record of host, port, link,
\* nullable processId and token.

\* A YAML scalar for Option<u32>: null, or an integer.
yaml_of_pid(pid) ==
    IF pid = None THEN [tag |-> "null", int |-> 0]
    ELSE [tag |-> "int", int |-> Unwrap(pid)]

\* The Option<u32> of a YAML scalar: None for null.
pid_of_yaml(node) == IF node.tag = "null" THEN None ELSE Some(node.int)

\* serde_yaml::to_string(&self.connections): a mapping document with one
\* entry per key, each a mapping of the five fields of Connection.
serde_yaml_to_string(conns) ==
    [kind |-> "yaml",
     entries |-> {[key |-> k, host |-> conns[k].host, port |-> conns[k].port,
                   link |-> conns[k].link, pid |-> yaml_of_pid(conns[k].pid),
                   token |-> conns[k].token] : k \in DOMAIN conns}]

\* serde_yaml::from_str::<HashMap<String,Connection>>(&contents)
serde_yaml_from_str(contents) ==
    [k \in {e.key : e \in contents.entries} |->
        LET e == CHOOSE e \in contents.entries : e.key = k
        IN [host |-> e.host, port |-> e.port, link |-> e.link,
            pid |-> pid_of_yaml(e.pid), token |-> e.token]]

BlankContents == [kind |-> "blank", entries |-> {}]

\* A prefix of a document that serde_yaml::from_str rejects.
PartialContents == [kind |-> "partial", entries |-> {}]

\* A token cut short: the text of a prefix of the document that ends inside
\* the token, the last field of an entry.
TokenPrefix(token) ==
    CASE token = "abc123" -> "abc"
      [] token = "def456" -> "def"
      [] token = "t2" -> "t"
      [] OTHER -> token

\* The prefixes of the document of conns that are documents themselves:
\* the block mapping has no closing delimiter, so a prefix that ends after
\* an entry, or inside the token of an entry, is the document of the
\* entries written so far (in any order of the HashMap), the last one with
\* its token cut short.  The prefix that lacks only the final newline is
\* the document of all of conns ("{}" for the empty registry).
PrefixDocuments(conns) ==
    {serde_yaml_to_string([k \in S |-> conns[k]]) :
        S \in {T \in SUBSET DOMAIN conns : T = {} => DOMAIN conns = {}}}
    \cup
    UNION {{serde_yaml_to_string(
               [k \in S |-> IF k = c
                            THEN [conns[k] EXCEPT !.token = TokenPrefix(@)]
                            ELSE conns[k]]) :
               S \in {T \in SUBSET DOMAIN conns : c \in T}} :
           c \in DOMAIN conns}

\* File::create: a missing file is created with the default mode, an
\* existing one is truncated and keeps its mode.
File_create(f) ==
    [exists |-> TRUE, contents |-> BlankContents,
     mode |-> IF f.exists THEN f.mode ELSE "0644"]

\* set_permissions(&cache_path, Permissions::from_mode(0o600))
set_permissions(f) == [f EXCEPT !.mode = "0600"]

\* Mutant: the serialized registry is not written.
write_Nothing(f, text) == f

\* write!(file, "{}", serialized_cache)
write(f, text) == [f EXCEPT !.contents = text]

\* Mutant: the data is written before the mode is set.
SaveSteps_WriteFirst == <<"create", "write", "set_permissions">>

\* The system calls of ConnectionCache::save, in the order it makes them.
SaveSteps == <<"create", "set_permissions", "write">>

\* The file after the system call `step` of save succeeded.
save_step(step, f, text) ==
    CASE step = "create" -> File_create(f)
      [] step = "set_permissions" -> set_permissions(f)
      [] step = "write" -> write(f, text)

\* The files the system call `step` can leave when it fails: a failed
\* create or chmod changes nothing, a failed write wrote nothing or a
\* prefix of text, which from_str rejects or reads as a document.
save_step_failed(step, f, conns) ==
    IF step = "write"
    THEN {f, [f EXCEPT !.contents = PartialContents]}
         \cup {[f EXCEPT !.contents = d] : d \in PrefixDocuments(conns)}
    ELSE {f}

\* The error save returns when `step` fails.
save_error(step) ==
    IF step = "set_permissions" THEN "PermissionError" ELSE "IOError"

\* ConnectionCache::save with every system call succeeding.
\* `cache_path()?` (main.rs:274) has succeeded in load, in the same process
\* and environment, whenever save is reached.
save(conns, f) ==
    save_step(SaveSteps[3],
              save_step(SaveSteps[2],
                        save_step(SaveSteps[1], f, serde_yaml_to_string(conns)),
                        serde_yaml_to_string(conns)),
              serde_yaml_to_string(conns))

\* ConnectionCache::save with one of its system calls failing, the calls
\* before it having succeeded: the file it leaves and the error it returns.
save_failed(conns, f) ==
    LET text == serde_yaml_to_string(conns)
        f1 == save_step(SaveSteps[1], f, text)
        f2 == save_step(SaveSteps[2], f1, text)
    IN {[file |-> g, res |-> save_error(SaveSteps[1])] :
           g \in save_step_failed(SaveSteps[1], f, conns)}
       \cup {[file |-> g, res |-> save_error(SaveSteps[2])] :
                g \in save_step_failed(SaveSteps[2], f1, conns)}
       \cup {[file |-> g, res |-> save_error(SaveSteps[3])] :
                g \in save_step_failed(SaveSteps[3], f2, conns)}

\* The calls of load that can fail before it reads anything: cache_path()
\* (HOME is not set), File::open and read_to_string on a file that exists.
LoadFaults == {"none", "cache_path", "open", "read_to_string"}

\* Mutant: a missing or blank file is read as empty and nothing is saved.
load_NoBootstrapSave(f, fail) ==
    IF fail = "cache_path"
    THEN [connections |-> EmptyMap, file |-> f, saved |-> FALSE,
          res |-> "ConfigError"]
    ELSE IF ~f.exists
    THEN [connections |-> EmptyMap, file |-> f, saved |-> FALSE, res |-> "Ok"]
    ELSE IF fail \in {"open", "read_to_string"}
    THEN [connections |-> EmptyMap, file |-> f, saved |-> FALSE,
          res |-> "IOError"]
    ELSE IF f.contents.kind = "blank"
    THEN [connections |-> EmptyMap, file |-> f, saved |-> FALSE, res |-> "Ok"]
    ELSE IF f.contents.kind = "partial"
    THEN [connections |-> EmptyMap, file |-> f, saved |-> FALSE,
          res |-> "CorruptState"]
    ELSE [connections |-> serde_yaml_from_str(f.contents), file |-> f,
          saved |-> FALSE, res |-> "Ok"]

\* ConnectionCache::load, with the save of the bootstrap succeeding.  fail
\* names the call that fails, "none" when none does: `cache_path()?`
\* returns before the file is looked at, `File::open(..)?` and
\* `read_to_string(..)?` return the error of a file that exists and cannot
\* be opened or read.  Else a missing or blank file is bootstrapped and
\* saved, and any other is parsed.
load(f, fail) ==
    IF fail = "cache_path"
    THEN [connections |-> EmptyMap, file |-> f, saved |-> FALSE,
          res |-> "ConfigError"]
    ELSE IF ~f.exists
    THEN [connections |-> EmptyMap, file |-> save(EmptyMap, f), saved |-> TRUE,
          res |-> "Ok"]
    ELSE IF fail \in {"open", "read_to_string"}
    THEN [connections |-> EmptyMap, file |-> f, saved |-> FALSE,
          res |-> "IOError"]
    ELSE IF f.contents.kind = "blank"
    THEN [connections |-> EmptyMap, file |-> save(EmptyMap, f), saved |-> TRUE,
          res |-> "Ok"]
    ELSE IF f.contents.kind = "partial"
    THEN [connections |-> EmptyMap, file |-> f, saved |-> FALSE,
          res |-> "CorruptState"]
    ELSE [connections |-> serde_yaml_from_str(f.contents), file |-> f,
          saved |-> FALSE, res |-> "Ok"]

\* ConnectionCache::load whose bootstrap save fails: `self.save()?` returns
\* the error of the system call.
load_failed(f) ==
    IF load(f, "none").saved
    THEN {[connections |-> EmptyMap, file |-> s.file, saved |-> FALSE,
           res |-> s.res] : s \in save_failed(EmptyMap, f)}
    ELSE {}

\* The outcomes of ConnectionCache::load on file f when cache_path, open
\* and read_to_string succeed.
loads(f) == {load(f, "none")} \cup load_failed(f)

\* The outcomes of ConnectionCache::load on file f when cache_path, open or
\* read_to_string fails.
load_faults(f) ==
    {ld \in {load(f, fail) : fail \in LoadFaults \ {"none"}} :
        ld.res \in {"ConfigError", "IOError"}}

----------------------------------------------------------------------------
(* State machine *)

Ports == {8888, 8889}

\* The keys a caller may name: every host:port, present or not.
Keys == {key_of(h, p) : h \in Hosts, p \in Ports}

NoFile == [exists |-> FALSE, contents |-> BlankContents, mode |-> "none"]

BlankFile == [exists |-> TRUE, contents |-> BlankContents, mode |-> "0644"]

\* The file a save left whose write failed midway.
PartialFile == [exists |-> TRUE, contents |-> PartialContents, mode |-> "0600"]

\* Where an invocation stands: between two invocations, before its
\* operation, or before system call number `step` of a save, the save of
\* the bootstrap in load ("boot") or the one that ends run() ("final").
Done == [at |-> "done", phase |-> "none", step |-> 0]

AtOp == [at |-> "op", phase |-> "none", step |-> 0]

AtSave(phase, i) == [at |-> "save", phase |-> phase, step |-> i]

InitLast ==
    [tick |-> FALSE, op |-> "init", key |-> None, link |-> "", host |-> "",
     all |-> FALSE, res |-> "Ok",
     spawns |-> << >>, kills |-> << >>, order |-> << >>, attempted |-> 0,
     saved |-> FALSE, repeat |-> "no", rows |-> EmptyMap]

Init ==
    /\ connections = EmptyMap
    /\ alive = {}
    /\ clients = {}
    /\ nextPid = 1
    /\ signalled = {}
    /\ file = NoFile
    /\ pc = Done
    /\ last = InitLast

\* The world an operation on registry conns starts in.
World(conns) ==
    [connections |-> conns, alive |-> alive, clients |-> clients,
     nextPid |-> nextPid,
     signalled |-> signalled, spawns |-> << >>, kills |-> << >>,
     rows |-> EmptyMap]

\* Whether this operation terminates the tunnel the previous operation,
\* a disconnect of the same key, terminated: "afterOk", "afterErr" or "no".
Repeat(op, key) ==
    IF /\ op = "disconnect" /\ last.op = "disconnect" /\ last.key = key
       /\ Unwrap(key) \in DOMAIN connections
    THEN (IF last.res = "Ok" THEN "afterOk" ELSE "afterErr")
    ELSE "no"

\* The state after an operation that returned r; last.tick flips at every
\* operation, so that a step of an operation is told from an OS step.
Commit(op, key, link, host, all, r, order, f, saved) ==
    /\ r.w.nextPid <= MaxPid + 1
    /\ connections' = r.w.connections
    /\ alive' = r.w.alive
    /\ clients' = r.w.clients
    /\ nextPid' = r.w.nextPid
    /\ signalled' = r.w.signalled
    /\ file' = f
    /\ pc' = Done
    /\ last' = [tick |-> ~last.tick, op |-> op, key |-> key, link |-> link,
                host |-> host, all |-> all,
                res |-> r.res, spawns |-> r.w.spawns, kills |-> r.w.kills,
                order |-> order, attempted |-> r.attempted, saved |-> saved,
                repeat |-> Repeat(op, key), rows |-> r.w.rows]

One(r) == [w |-> r.w, res |-> r.res, attempted |-> 1]

\* orc for an operation on one key: the OS call fails or it does not.
Oracle(key, fail) == IF fail THEN {key} ELSE {}

\* The keys of conns on which an operation makes an OS call that can fail:
\* kill() for a live tunnel, spawn() for a dead one.
LiveKeys(conns) ==
    {k \in DOMAIN conns : is_alive(World(conns), conns[k])}

DeadKeys(conns) == DOMAIN conns \ LiveKeys(conns)

\* The processes that list probes twice and that can end in between.
LivePids(conns) == {Unwrap(conns[k].pid) : k \in LiveKeys(conns)}

\* Whether new_connection(link, host) on conns reaches the spawn.
Spawns(conns, link, host) ==
    /\ UrlParts_parse(link).res = "Ok"
    /\ key_of(host, Unwrap(UrlParts_parse(link).port)) \notin DOMAIN conns

\* The outcomes of the OS call of an operation: it can fail when it is made.
Fails(made) == IF made THEN BOOLEAN ELSE {FALSE}

(* Operations on one ConnectionCache value, in any sequence *)

Create(link, host, fail) ==
    LET p == UrlParts_parse(link)
        orc == IF p.res = "Ok" /\ fail THEN {key_of(host, Unwrap(p.port))} ELSE {}
    IN \E r \in {One(new_connection(World(connections), orc, link, host))} :
          Commit("create", None, link, host, FALSE, r, << >>, file, FALSE)

List(exits) ==
    \E r \in {list(World(connections), exits)} :
       Commit("list", None, "", "", FALSE, r, << >>, file, FALSE)

Reconnect(key, fail) ==
    \E r \in {One(reconnect(World(connections), Oracle(key, fail), key))} :
       Commit("reconnect", Some(key), "", "", FALSE, r, << >>, file, FALSE)

ReconnectAll(order, orc) ==
    \E r \in {reconnect_all(World(connections), orc, order)} :
       Commit("reconnectAll", None, "", "", TRUE, r, order, file, FALSE)

Disconnect(key, fail) ==
    \E r \in {One(disconnect(World(connections), Oracle(key, fail), key))} :
       Commit("disconnect", Some(key), "", "", FALSE, r, << >>, file, FALSE)

DisconnectAll(order, orc) ==
    \E r \in {disconnect_all(World(connections), orc, order)} :
       Commit("disconnectAll", None, "", "", TRUE, r, order, file, FALSE)

Drop(key, fail) ==
    \E r \in {One(drop_connection(World(connections), Oracle(key, fail), key))} :
       Commit("drop", Some(key), "", "", FALSE, r, << >>, file, FALSE)

DropAll(order, orc) ==
    \E r \in {drop_all_connections(World(connections), orc, order)} :
       Commit("dropAll", None, "", "", TRUE, r, order, file, FALSE)

\* The OS: the shell of a tunnel ends: with its ssh client (ssh fails, the
\* remote closes), or by the signal it was sent.
ProcExit(pid) ==
    /\ pid \in alive
    /\ \E w \in {exit_of(World(connections), {pid})} :
          /\ alive' = w.alive
          /\ signalled' = w.signalled
          /\ clients' = w.clients
    /\ UNCHANGED <<connections, nextPid, file, pc, last>>

\* The OS: an ssh client whose shell is gone ends.  (Where /bin/sh replaces
\* itself by the command instead of running it as a child, the signal
\* reaches the client itself: the behaviours in which this step follows the
\* exit of the signalled shell at once.)
ClientExit(pid) ==
    /\ pid \in clients \ alive
    /\ clients' = clients \ {pid}
    /\ UNCHANGED <<connections, alive, nextPid, signalled, file, pc, last>>

Next ==
    \/ \E link \in Links, host \in Hosts :
          \E fail \in Fails(Spawns(connections, link, host)) :
             Create(link, host, fail)
    \/ \E exits \in SUBSET LivePids(connections) : List(exits)
    \/ \E key \in Keys : \E fail \in Fails(key \in DeadKeys(connections)) :
          Reconnect(key, fail)
    \/ \E order \in KeyOrders(connections), orc \in SUBSET DeadKeys(connections) :
          ReconnectAll(order, orc)
    \/ \E key \in Keys : \E fail \in Fails(key \in LiveKeys(connections)) :
          Disconnect(key, fail)
    \/ \E order \in KeyOrders(connections), orc \in SUBSET LiveKeys(connections) :
          DisconnectAll(order, orc)
    \/ \E key \in Keys : \E fail \in Fails(key \in LiveKeys(connections)) :
          Drop(key, fail)
    \/ \E order \in KeyOrders(connections), orc \in SUBSET LiveKeys(connections) :
          DropAll(order, orc)
    \/ \E pid \in Pids : ProcExit(pid)
    \/ \E pid \in Pids : ClientExit(pid)

Spec == Init /\ [][Next]_vars

----------------------------------------------------------------------------
(* run(): one invocation of the command line.  Each command builds a new   *)
(* ConnectionCache, loads the file, does one operation and, for new, rc    *)
(* and drop, saves when the operation returned Ok.  A system call of the   *)
(* bootstrap save or of the final save can fail, and ends the invocation   *)
(* with its error.                                                          *)

InitCli ==
    /\ connections = EmptyMap
    /\ alive = {}
    /\ clients = {}
    /\ nextPid = 1
    /\ signalled = {}
    /\ file \in {NoFile, BlankFile, PartialFile}
    /\ pc = Done
    /\ last = InitLast

\* `sessions.load()?`: when load returns an error the invocation returns it
\* with nothing done; else it goes on to its operation, which returns r.
Loading(ld, r) ==
    IF ld.res /= "Ok"
    THEN [w |-> World(ld.connections), res |-> ld.res, attempted |-> 0]
    ELSE r

\* Mutant: new, rc and drop save whatever the operation returned.
run_saves_Always(op, res) == op \in {"new", "rc", "drop"}

\* Whether run() goes on to `sessions.save()`: the arms of new, rc and
\* drop do, when the `?` on the operation did not return; list and dc
\* never do.
run_saves(op, res) == op \in {"new", "rc", "drop"} /\ res = "Ok"

\* The ends of an invocation of new, rc or drop, the file and the result:
\* `sessions.save()` is reached only when the operation's `?` did not
\* return, and its result, Ok or the error of a system call, is the
\* result of run().
Saved(op, r, ld) ==
    IF run_saves(op, r.res)
    THEN {[file |-> save(r.w.connections, ld.file), res |-> "Ok",
           saved |-> TRUE]}
         \cup {[file |-> s.file, res |-> s.res, saved |-> FALSE] :
                  s \in save_failed(r.w.connections, ld.file)}
    ELSE {[file |-> ld.file, res |-> r.res, saved |-> FALSE]}

RunNew(link, host, fail) ==
    LET p == UrlParts_parse(link)
        orc == IF p.res = "Ok" /\ fail THEN {key_of(host, Unwrap(p.port))} ELSE {}
    IN \E ld \in loads(file) :
       \E r \in {Loading(ld, One(new_connection(World(ld.connections), orc,
                                                link, host)))} :
       \E sv \in Saved("new", r, ld) :
          Commit("new", None, link, host, FALSE, [r EXCEPT !.res = sv.res],
                 << >>, sv.file, sv.saved)

RunList(exits) ==
    \E ld \in loads(file) :
    \E r \in {Loading(ld, list(World(ld.connections), exits))} :
    \E sv \in Saved("list", r, ld) :
       Commit("list", None, "", "", FALSE, [r EXCEPT !.res = sv.res], << >>,
              sv.file, sv.saved)

\* key is the Option<String> argument: None reconnects all.
RunRc(key, order, orc) ==
    \E ld \in loads(file) :
    \E r \in {Loading(ld,
                IF key = None
                THEN reconnect_all(World(ld.connections), orc, order)
                ELSE One(reconnect(World(ld.connections), orc, Unwrap(key))))} :
    \E sv \in Saved("rc", r, ld) :
       Commit("rc", key, "", "", FALSE, [r EXCEPT !.res = sv.res], order,
              sv.file, sv.saved)

\* Commands::Dc returns Ok(()) without calling save.
RunDc(key, order, orc) ==
    \E ld \in loads(file) :
    \E r \in {Loading(ld,
                IF key = None
                THEN disconnect_all(World(ld.connections), orc, order)
                ELSE One(disconnect(World(ld.connections), orc, Unwrap(key))))} :
    \E sv \in Saved("dc", r, ld) :
       Commit("dc", key, "", "", FALSE, [r EXCEPT !.res = sv.res], order,
              sv.file, sv.saved)

RunDrop(key, all, order, orc) ==
    \E ld \in loads(file) :
    \E r \in {Loading(ld,
                IF all
                THEN drop_all_connections(World(ld.connections), orc, order)
                ELSE IF key = None
                  THEN [w |-> World(ld.connections), res |-> "ArgumentError",
                        attempted |-> 0]
                ELSE One(drop_connection(World(ld.connections), orc,
                                         Unwrap(key))))} :
    \E sv \in Saved("drop", r, ld) :
       Commit("drop", key, "", "", all, [r EXCEPT !.res = sv.res], order,
              sv.file, sv.saved)

\* An invocation whose load() returns the error of cache_path(),
\* File::open or read_to_string: `sessions.load()?` returns it before the
\* arguments of the command are used.
RunFault(op, all) ==
    \E ld \in load_faults(file) :
       Commit(op, None, "", "", all,
              [w |-> World(ld.connections), res |-> ld.res, attempted |-> 0],
              << >>, ld.file, FALSE)

\* The Option<String> key arguments.
KeyArgs == {None} \cup {Some(k) : k \in Keys}

\* The registry the next invocation loads.
Loaded == load(file, "none").connections

\* The links given to new: two well-formed ones and one without a token.
SaveLinks == {LinkA, LinkB, LinkNoToken}

NextCli ==
    \/ \E link \in SaveLinks, host \in Hosts :
          \E fail \in Fails(Spawns(Loaded, link, host)) : RunNew(link, host, fail)
    \/ \E exits \in SUBSET LivePids(Loaded) : RunList(exits)
    \/ \E key \in Keys : \E fail \in Fails(key \in DeadKeys(Loaded)) :
          RunRc(Some(key), << >>, Oracle(key, fail))
    \/ \E order \in KeyOrders(Loaded), orc \in SUBSET DeadKeys(Loaded) :
          RunRc(None, order, orc)
    \/ \E key \in Keys : \E fail \in Fails(key \in LiveKeys(Loaded)) :
          RunDc(Some(key), << >>, Oracle(key, fail))
    \/ \E order \in KeyOrders(Loaded), orc \in SUBSET LiveKeys(Loaded) :
          RunDc(None, order, orc)
    \/ \E key \in Keys : \E fail \in Fails(key \in LiveKeys(Loaded)) :
          RunDrop(Some(key), FALSE, << >>, Oracle(key, fail))
    \/ RunDrop(None, FALSE, << >>, {})
    \/ \E key \in KeyArgs, order \in KeyOrders(Loaded),
          orc \in SUBSET LiveKeys(Loaded) :
          RunDrop(key, TRUE, order, orc)
    \/ \E op \in {"new", "list", "rc", "dc", "drop"} :
          \E all \in (IF op = "drop" THEN BOOLEAN ELSE {FALSE}) :
             RunFault(op, all)
    \/ \E pid \in Pids : ProcExit(pid)
    \/ \E pid \in Pids : ClientExit(pid)

SpecCli == InitCli /\ [][NextCli]_vars

\* The invocations that return Ok, and no other: every OS call succeeds,
\* and an invocation that would return an error is not made.
NextCliOk ==
    \/ \E link \in Links, host \in Hosts :
          RunNew(link, host, FALSE) /\ last'.res = "Ok"
    \/ \E exits \in SUBSET LivePids(Loaded) :
          RunList(exits) /\ last'.res = "Ok"
    \/ \E key \in Keys : RunRc(Some(key), << >>, {}) /\ last'.res = "Ok"
    \/ \E order \in KeyOrders(Loaded) :
          RunRc(None, order, {}) /\ last'.res = "Ok"
    \/ \E key \in Keys : RunDc(Some(key), << >>, {}) /\ last'.res = "Ok"
    \/ \E order \in KeyOrders(Loaded) :
          RunDc(None, order, {}) /\ last'.res = "Ok"
    \/ \E key \in Keys :
          RunDrop(Some(key), FALSE, << >>, {}) /\ last'.res = "Ok"
    \/ \E key \in KeyArgs, order \in KeyOrders(Loaded) :
          RunDrop(key, TRUE, order, {}) /\ last'.res = "Ok"
    \/ \E pid \in Pids : ProcExit(pid)
    \/ \E pid \in Pids : ClientExit(pid)

SpecCliOk == InitCli /\ [][NextCliOk]_vars

----------------------------------------------------------------------------
(* run() in steps: an invocation reads the file, bootstraps it when it is  *)
(* missing or blank, does its operation and saves; every save is three     *)
(* system calls, and each of them can fail.                                *)

\* The record of an invocation once it has returned: its command, result,
\* spawns and signals; the arguments are gone with the process.
Returned(l) ==
    [l EXCEPT !.key = None, !.link = "", !.host = "", !.attempted = 0,
              !.rows = EmptyMap]

\* The record of the invocation after a step that leaves it at position p.
Record(l, p) == IF p = Done THEN Returned(l) ELSE l

\* ConnectionCache::new() and load() up to its save or its return, the
\* calls of load before its parse succeeding: ld.saved tells that load
\* bootstraps and goes on to save.
Start(op, key, link, host, all) ==
    /\ pc = Done
    /\ \E ld \in {load(file, "none")} :
          /\ connections' = ld.connections
          /\ pc' = IF ld.saved THEN AtSave("boot", 1)
                   ELSE IF ld.res = "Ok" THEN AtOp ELSE Done
          /\ last' = Record([InitLast EXCEPT
                                 !.op = op,
                                 !.key = key, !.link = link,
                                 !.host = host, !.all = all,
                                 !.res = IF pc'.at = "done" THEN ld.res
                                         ELSE "Running"], pc')
    /\ UNCHANGED <<alive, clients, nextPid, signalled, file>>

\* ConnectionCache::new() and a load() that returns the error of
\* cache_path(), File::open or read_to_string: `sessions.load()?` ends the
\* invocation before the arguments of its command are used.
StartFault(op, all) ==
    /\ pc = Done
    /\ \E ld \in load_faults(file) :
          /\ connections' = ld.connections
          /\ pc' = Done
          /\ last' = Returned([InitLast EXCEPT !.op = op, !.all = all,
                                               !.res = ld.res])
    /\ UNCHANGED <<alive, clients, nextPid, signalled, file>>

\* One system call of save.  The last one of the bootstrap returns into
\* run(), the last one of the final save ends the invocation; a failed one
\* ends the invocation with its error (`self.save()?`).
SaveStep(ok) ==
    /\ pc.at = "save"
    /\ \E step \in {SaveSteps[pc.step]} :
          IF ok
          THEN /\ file' = save_step(step, file, serde_yaml_to_string(connections))
               /\ pc' = IF pc.step < Len(SaveSteps)
                          THEN AtSave(pc.phase, pc.step + 1)
                        ELSE IF pc.phase = "boot" THEN AtOp ELSE Done
               /\ last' = IF pc.step = Len(SaveSteps) /\ pc.phase = "final"
                          THEN Returned([last EXCEPT !.res = "Ok",
                                                     !.saved = TRUE])
                          ELSE last
          ELSE /\ file' \in save_step_failed(step, file, connections)
               /\ pc' = Done
               /\ last' = Returned([last EXCEPT !.res = save_error(step)])
    /\ UNCHANGED <<connections, alive, clients, nextPid, signalled>>

\* The command at hand is a bulk one: rc or dc without a key, drop --all.
Bulk ==
    \/ last.op \in {"rc", "dc"} /\ last.key = None
    \/ last.op = "drop" /\ last.all

\* The sets of keys on which the OS call of the operation at hand can
\* fail: the spawn of new and rc, the kill of dc and drop.
Oracles ==
    CASE last.op = "new" ->
           LET p == UrlParts_parse(last.link)
           IN IF p.res = "Ok"
              THEN {Oracle(key_of(last.host, Unwrap(p.port)), fail) :
                      fail \in Fails(Spawns(connections, last.link, last.host))}
              ELSE {{}}
      [] last.op = "rc" ->
           IF last.key = None THEN SUBSET DeadKeys(connections)
           ELSE {Oracle(Unwrap(last.key), fail) :
                   fail \in Fails(Unwrap(last.key) \in DeadKeys(connections))}
      [] last.op \in {"dc", "drop"} ->
           IF Bulk THEN SUBSET LiveKeys(connections)
           ELSE IF last.key = None THEN {{}}
           ELSE {Oracle(Unwrap(last.key), fail) :
                   fail \in Fails(Unwrap(last.key) \in LiveKeys(connections))}
      [] OTHER -> {{}}

\* The operation of the command; new, rc and drop go on to save when it
\* returned Ok, list and dc return.
Operate(orc, order, exits) ==
    /\ pc = AtOp
    /\ \E r \in {CASE last.op = "new" ->
                      One(new_connection(World(connections), orc,
                                         last.link, last.host))
                 [] last.op = "list" -> list(World(connections), exits)
                 [] last.op = "rc" ->
                      IF last.key = None
                      THEN reconnect_all(World(connections), orc, order)
                      ELSE One(reconnect(World(connections), orc,
                                         Unwrap(last.key)))
                 [] last.op = "dc" ->
                      IF last.key = None
                      THEN disconnect_all(World(connections), orc, order)
                      ELSE One(disconnect(World(connections), orc,
                                          Unwrap(last.key)))
                 [] last.op = "drop" ->
                      IF last.all
                      THEN drop_all_connections(World(connections), orc, order)
                      ELSE IF last.key = None
                      THEN [w |-> World(connections), res |-> "ArgumentError",
                            attempted |-> 0]
                      ELSE One(drop_connection(World(connections), orc,
                                               Unwrap(last.key)))} :
          /\ r.w.nextPid <= MaxPid + 1
          /\ connections' = r.w.connections
          /\ alive' = r.w.alive
          /\ clients' = r.w.clients
          /\ nextPid' = r.w.nextPid
          /\ signalled' = r.w.signalled
          /\ pc' = IF run_saves(last.op, r.res) THEN AtSave("final", 1)
                   ELSE Done
          /\ last' = Record([last EXCEPT !.res = r.res,
                                         !.spawns = r.w.spawns,
                                         !.kills = r.w.kills,
                                         !.attempted = r.attempted,
                                         !.rows = r.w.rows], pc')
    /\ UNCHANGED file

NextSave ==
    \/ \E link \in SaveLinks, host \in Hosts :
          Start("new", None, link, host, FALSE)
    \/ Start("list", None, "", "", FALSE)
    \/ \E op \in {"rc", "dc"}, key \in KeyArgs : Start(op, key, "", "", FALSE)
    \/ \E key \in KeyArgs, all \in BOOLEAN : Start("drop", key, "", "", all)
    \/ \E op \in {"new", "list", "rc", "dc", "drop"} :
          \E all \in (IF op = "drop" THEN BOOLEAN ELSE {FALSE}) :
             StartFault(op, all)
    \/ \E ok \in BOOLEAN : SaveStep(ok)
    \/ \E orc \in Oracles :
          \E order \in (IF Bulk THEN KeyOrders(connections) ELSE {<< >>}) :
          \E exits \in (IF last.op = "list" THEN SUBSET LivePids(connections)
                         ELSE {{}}) :
             Operate(orc, order, exits)
    \/ \E pid \in Pids : ProcExit(pid)
    \/ \E pid \in Pids : ClientExit(pid)

SpecSave == InitCli /\ [][NextSave]_vars

----------------------------------------------------------------------------
(* Properties *)

\* A step of an operation (not of the OS): last.tick flips.
OpStep == last'.tick /= last.tick

\* The key argument of the operation that made the step, or the last one.
StepKey == Unwrap(last'.key)

LastKey == Unwrap(last.key)

\* The OS state status() probes after a step.
WorldAfter == [alive |-> alive']

\* C1: reconnect(key) on a key whose tunnel's process is alive is a no-op:
\* when it returns Ok the registry still maps the key to the same tunnel and
\* no process has been spawned.
C1_ReconnectAliveIsNoOp ==
    [][(/\ OpStep
        /\ last'.op = "reconnect"
        /\ last'.res = "Ok"
        /\ StepKey \in DOMAIN connections
        /\ is_alive(World(connections), connections[StepKey]))
       => (/\ StepKey \in DOMAIN connections'
           /\ connections'[StepKey] = connections[StepKey]
           /\ last'.spawns = << >>)]_vars

\* C2: a key that is present in the registry stops being present only by a
\* drop or dropAll step; no create, list, reconnect or disconnect step,
\* successful or failed, removes an entry.
C2_OnlyDropRemoves ==
    [][(OpStep /\ ~(DOMAIN connections \subseteq DOMAIN connections'))
       => last'.op \in {"drop", "dropAll"}]_vars

\* C3: create(link, host) whose derived key is already in the registry fails
\* with DuplicateKey, leaves the registry unchanged and spawns no process.
C3_DuplicateKeyRejected ==
    [][(/\ OpStep
        /\ last'.op = "create"
        /\ UrlParts_parse(last'.link).res = "Ok"
        /\ key_of(last'.host, Unwrap(UrlParts_parse(last'.link).port))
              \in DOMAIN connections)
       => (/\ last'.res = "DuplicateKey"
           /\ connections' = connections
           /\ last'.spawns = << >>
           /\ alive' = alive
           /\ nextPid' = nextPid)]_vars

\* A create was refused for a key held by an entry with another link.
C3_Witness ==
    /\ last.op = "create"
    /\ last.res = "DuplicateKey"
    /\ \E k \in DOMAIN connections :
          /\ k = key_of(last.host, Unwrap(UrlParts_parse(last.link).port))
          /\ connections[k].link /= last.link

\* C4: a drop request with both an explicit key and the "all" flag is
\* rejected with AmbiguousArguments before any mutation: no entry removed,
\* no termination signal sent, nothing saved.
C4_DropKeyAndAllRejected ==
    [][(OpStep /\ last'.op = "drop" /\ last'.key /= None /\ last'.all)
       => (/\ last'.res = "AmbiguousArguments"
           /\ connections' = load(file, "none").connections
           /\ last'.kills = << >>
           /\ ~last'.saved
           /\ file' = load(file, "none").file)]_vars

\* C5: after any call to terminate(), whatever the case and the call's
\* outcome, the tunnel's processId is None.  Violated: `kill(pid, SIGTERM)?`
\* (main.rs:161) returns the error of a signal that cannot be delivered
\* before `self.pid = None` (main.rs:169) is reached.
C5_TerminateAlwaysClearsPid ==
    (last.op = "disconnect" /\ last.res /= "KeyNotFound")
    => connections[LastKey].pid = None

\* Every signal of the step went to the stored pid of an entry whose process
\* was alive when the operation started.
SignalsOnlyToAlive ==
    \A i \in DOMAIN last'.kills :
       /\ last'.kills[i].pid \in alive
       /\ \E k \in DOMAIN connections :
             connections[k].pid = Some(last'.kills[i].pid)

\* C6: terminate() signals only when processId is set and alive; calling it
\* twice on the same tunnel leaves processId None after both calls and the
\* second call delivers no signal.  Violated through the early return of
\* C5: a first call whose signal fails leaves processId set, and the second
\* call signals again.
C6_TerminateTwice ==
    [][OpStep
       => (/\ SignalsOnlyToAlive
           /\ last'.repeat /= "no"
              => (/\ connections[StepKey].pid = None
                  /\ connections'[StepKey].pid = None
                  /\ last'.kills = << >>))]_vars

\* C7: disconnect(key) fails with KeyNotFound on an absent key and changes
\* nothing; otherwise the entry stays under its key with only processId
\* changed, to None, status() then reports Disconnected, and every other
\* entry is unchanged.  Violated through the early return of C5: disconnect
\* passes on the error of kill_connection (main.rs:328) with processId
\* still set.
C7_Disconnect ==
    [][(OpStep /\ last'.op = "disconnect")
       => IF StepKey \notin DOMAIN connections
          THEN last'.res = "KeyNotFound" /\ connections' = connections
          ELSE /\ connections' = [connections EXCEPT ![StepKey].pid = None]
               /\ status(WorldAfter, connections'[StepKey]) = "Disconnected"]_vars

\* C8: drop(key) on a present key removes exactly that entry and calls
\* terminate() on it, so a live process is sent the termination signal;
\* drop(key) on an absent key fails with KeyNotFound and changes nothing.
C8_Drop ==
    [][(OpStep /\ last'.op = "drop")
       => IF StepKey \in DOMAIN connections
          THEN /\ connections' = MapRemove(connections, StepKey)
               /\ IF is_alive(World(connections), connections[StepKey])
                  THEN /\ last'.res \in {"Ok", "SignalError"}
                       /\ last'.kills =
                             << [pid |-> Unwrap(connections[StepKey].pid),
                                 ok |-> last'.res = "Ok"] >>
                  ELSE last'.res = "Ok" /\ last'.kills = << >>
          ELSE /\ last'.res = "KeyNotFound"
               /\ connections' = connections
               /\ last'.kills = << >>]_vars

\* A drop removed one entry of several and signalled its live process.
C8_Witness ==
    /\ last.op = "drop"
    /\ last.res = "Ok"
    /\ Len(last.kills) = 1
    /\ last.kills[1].ok
    /\ LastKey \notin DOMAIN connections
    /\ DOMAIN connections /= {}

\* The step made no OS call for entry k and left it as it was.
Untouched(k) ==
    /\ k \in DOMAIN connections'
    /\ connections'[k] = connections[k]
    /\ \A i \in DOMAIN last'.kills :
          connections[k].pid /= Some(last'.kills[i].pid)
    /\ \A i \in DOMAIN last'.spawns :
          ~(/\ last'.spawns[i].host = connections[k].host
            /\ last'.spawns[i].port = connections[k].port)

\* The failed OS call of the step is its last one, made for entry k.
FailedOn(k) ==
    IF last'.op = "reconnectAll"
    THEN /\ last'.res = "SpawnError"
         /\ last'.spawns /= << >>
         /\ \A i \in DOMAIN last'.spawns :
               (last'.spawns[i].pid = None) <=> (i = Len(last'.spawns))
         /\ last'.spawns[Len(last'.spawns)].host = connections[k].host
         /\ last'.spawns[Len(last'.spawns)].port = connections[k].port
    ELSE /\ last'.res = "SignalError"
         /\ last'.kills /= << >>
         /\ \A i \in DOMAIN last'.kills :
               (~last'.kills[i].ok) <=> (i = Len(last'.kills))
         /\ connections[k].pid = Some(last'.kills[Len(last'.kills)].pid)

\* C9: reconnectAll, disconnectAll and dropAll iterate over a snapshot of the
\* keys and stop at the first failure: no later key of the snapshot is
\* attempted and the error returned is that first failure.
C9_BulkShortCircuit ==
    [][(OpStep /\ last'.op \in {"reconnectAll", "disconnectAll", "dropAll"})
       => (/\ last'.order \in KeyOrders(connections)
           /\ IF last'.res = "Ok"
              THEN last'.attempted = Len(last'.order)
              ELSE /\ last'.attempted \in 1..Len(last'.order)
                   /\ FailedOn(last'.order[last'.attempted])
                   /\ \A j \in (last'.attempted + 1)..Len(last'.order) :
                         Untouched(last'.order[j]))]_vars

\* dropAll failed on its first key and never attempted the second.
C9_Witness ==
    /\ last.op = "dropAll"
    /\ last.res = "SignalError"
    /\ last.attempted = 1
    /\ Len(last.order) = 2
    /\ last.order[2] \in DOMAIN connections
    /\ connections[last.order[2]].pid /= None

\* reconnect(key) on an absent key fails with KeyNotFound.
ReconnectAbsent ==
    (StepKey \notin DOMAIN connections)
    => (last'.res = "KeyNotFound" /\ connections' = connections)

\* reconnect(key) of a dead tunnel spawned one process from the stored host
\* and link and put the entry back with the new processId.
Respawned ==
    /\ last'.res = "Ok"
    /\ Len(last'.spawns) = 1
    /\ last'.spawns[1] =
          [host |-> connections[StepKey].host,
           port |-> Unwrap(UrlParts_parse(connections[StepKey].link).port),
           pid |-> Some(nextPid)]
    /\ alive' = alive \cup {nextPid}
    /\ DOMAIN connections' = DOMAIN connections
    /\ connections'[StepKey] = [connections[StepKey] EXCEPT !.pid = Some(nextPid)]

\* C10 as stated: reconnect(key) fails with KeyNotFound when the key is
\* absent; when the tunnel is dead it spawns exactly one new process and
\* leaves the same keys, the entry carrying the new processId.
C10_Reconnect ==
    [][(OpStep /\ last'.op = "reconnect")
       => (/\ ReconnectAbsent
           /\ (/\ StepKey \in DOMAIN connections
               /\ ~is_alive(World(connections), connections[StepKey]))
              => Respawned)]_vars

\* C10 as amended: the same when the spawn succeeds; when the process cannot
\* be spawned reconnect fails with SpawnError and no process is created.
C10_ReconnectUnlessSpawnFails ==
    [][(OpStep /\ last'.op = "reconnect")
       => (/\ ReconnectAbsent
           /\ (/\ StepKey \in DOMAIN connections
               /\ ~is_alive(World(connections), connections[StepKey]))
              => \/ Respawned
                 \/ /\ last'.res = "SpawnError"
                    /\ Len(last'.spawns) = 1
                    /\ last'.spawns[1].pid = None
                    /\ alive' = alive
                    /\ nextPid' = nextPid)]_vars

\* A reconnect respawned a dead tunnel: the entry carries the new process.
C10_Witness ==
    /\ last.op = "reconnect"
    /\ last.res = "Ok"
    /\ Len(last.spawns) = 1
    /\ LastKey \in DOMAIN connections
    /\ connections[LastKey].pid = last.spawns[1].pid

----------------------------------------------------------------------------
(* Links as written: what the text of each link holds, read off the text   *)
(* and not through the parser.                                             *)

\* Whether the text is a URL, the port written after the host, and the
\* value of the first `token` parameter of the query.
LinkText(link) ==
    CASE link = LinkA -> [url |-> TRUE, port |-> Some(8888), token |-> Some("abc123")]
      [] link = LinkB -> [url |-> TRUE, port |-> Some(8889), token |-> Some("def456")]
      [] link = LinkC -> [url |-> TRUE, port |-> Some(8888), token |-> Some("t2")]
      [] link = LinkNoPort -> [url |-> TRUE, port |-> None, token |-> Some("abc123")]
      [] link = LinkDefaultPort -> [url |-> TRUE, port |-> Some(80), token |-> Some("abc123")]
      [] link = LinkNoToken -> [url |-> TRUE, port |-> Some(8888), token |-> None]
      [] OTHER -> [url |-> FALSE, port |-> None, token |-> None]

\* C11: a create that returns Ok, on a registry that does not hold the
\* derived key, adds exactly one entry, under "{host}:{port}", with the port
\* and token written in the link, the link verbatim, the given host and the
\* process id of the one spawn it made; every other entry is unchanged.
C11_CreateAddsOneEntry ==
    [][(OpStep /\ last'.op = "create" /\ last'.res = "Ok") =>
         LET host == last'.host
             link == last'.link
             port == Unwrap(LinkText(link).port)
             key == host \o ":" \o ToString(port)
         IN /\ key \notin DOMAIN connections
            /\ DOMAIN connections' = DOMAIN connections \cup {key}
            /\ \A k \in DOMAIN connections : connections'[k] = connections[k]
            /\ connections'[key] =
                  [host |-> host, port |-> port, link |-> link,
                   pid |-> Some(nextPid),
                   token |-> Unwrap(LinkText(link).token)]
            /\ last'.spawns = << [host |-> host, port |-> port,
                                  pid |-> connections'[key].pid] >>
            /\ nextPid \in alive'
            /\ nextPid' = nextPid + 1]_vars

\* A create of the link with two token parameters succeeded next to an older
\* entry.
C11_Witness ==
    /\ last.op = "create" /\ last.res = "Ok" /\ last.link = LinkC
    /\ Cardinality(DOMAIN connections) = 2
    /\ connections[key_of(last.host, 8888)].token = "t2"
    /\ connections[key_of(last.host, 8888)].pid = Some(nextPid - 1)

\* The key "{host}:{port}" of an entry, written out.
DerivedKey(conn) == conn.host \o ":" \o ToString(conn.port)

\* C12: after any sequence of invocations (load, one of create, reconnect,
\* disconnect, drop or their -all forms, save), every key of the registry in
\* memory and of the registry the file holds is the derived key
\* "{host}:{port}" of its entry.
C12_KeyIsDerivedKey ==
    \A m \in {connections, Loaded} : \A k \in DOMAIN m : k = DerivedKey(m[k])

\* A reconnect respawned a tunnel and the registry was saved.
C12_Witness ==
    /\ pc = Done
    /\ last.op = "rc" /\ last.res = "Ok" /\ last.saved
    /\ last.spawns /= << >>
    /\ Loaded /= EmptyMap
    /\ Loaded = connections

\* The step starts an invocation: the one before has returned and the
\* record is renewed.
Invoked == pc = Done /\ last' /= last

\* The file is missing, or holds nothing but blanks.
Bootstrappable(f) == ~f.exists \/ f.contents.kind = "blank"

\* The load() of the invocation is saving the empty registry.
Bootstrapping == pc.at = "save" /\ pc.phase = "boot"

\* load() has returned Ok from its bootstrap: the invocation holds the empty
\* registry, and the file is there and is read, without error and without
\* another bootstrap, as the empty registry.
Bootstrapped ==
    /\ connections' = EmptyMap
    /\ file'.exists
    /\ ~Bootstrappable(file')
    /\ load(file', "none").res = "Ok"
    /\ load(file', "none").connections = EmptyMap

\* The invocation has ended with nothing spawned and nothing signalled.
EndedIdle ==
    /\ pc' = Done
    /\ connections' = EmptyMap
    /\ last'.spawns = << >> /\ last'.kills = << >>
    /\ ~last'.saved
    /\ UNCHANGED <<alive, clients, nextPid, signalled>>

\* The file a failed system call of the bootstrap's save leaves: a failed
\* create or chmod leaves it as it was before the call (missing or as it
\* was for create, created and empty for chmod), a failed write leaves the
\* created file empty, partly written or wholly written.
LeftByFailedCall ==
    IF SaveSteps[pc.step] = "write"
    THEN /\ file'.exists
         /\ file'.mode = file.mode
         /\ file'.contents \in {BlankContents, PartialContents,
                                 serde_yaml_to_string(EmptyMap)}
    ELSE file' = file

\* C13 as stated: load() of a missing or blank file yields the empty
\* registry and leaves a file from which the next load() again yields the
\* empty registry without error.
C13_Bootstrap ==
    [][/\ (Invoked /\ Bootstrappable(file))
          => (connections' = EmptyMap /\ pc' = AtSave("boot", 1))
       /\ Bootstrapping
          => (/\ pc'.at /= "done"
              /\ pc' = AtOp => Bootstrapped)]_vars

\* C13 as amended: load() of a missing or blank file returns ConfigError
\* when the location of the file cannot be resolved and IOError when the
\* blank file cannot be opened or read, the file untouched; else it saves
\* the empty registry.  When every system call of that save succeeds it
\* yields the empty registry and leaves a file from which the next load()
\* again yields the empty registry without error; when one fails load()
\* returns its error, IOError or PermissionError, and the file is as the
\* failed call left it.  Every failing load() ends the invocation with
\* nothing spawned and nothing signalled.
C13_BootstrapOrError ==
    [][/\ (Invoked /\ Bootstrappable(file))
          => /\ file' = file
             /\ \/ /\ connections' = EmptyMap
                   /\ pc' = AtSave("boot", 1)
                   /\ last'.res = "Running"
                \/ /\ last'.res = "ConfigError"
                   /\ EndedIdle
                \/ /\ file.exists
                   /\ last'.res = "IOError"
                   /\ EndedIdle
       /\ (Bootstrapping /\ pc' /= pc)
          => IF pc'.at = "done"
             THEN /\ last'.res = save_error(SaveSteps[pc.step])
                  /\ last'.res \in {"IOError", "PermissionError"}
                  /\ EndedIdle
                  /\ LeftByFailedCall
             ELSE /\ connections' = EmptyMap
                  /\ file' = save_step(SaveSteps[pc.step], file,
                                       serde_yaml_to_string(EmptyMap))
                  /\ pc' = AtOp => Bootstrapped]_vars

\* The load() of the first invocation, a list, found no usable file, saved
\* the empty registry and returned.
C13_Witness ==
    /\ pc = AtOp
    /\ last.op = "list"
    /\ nextPid = 1
    /\ connections = EmptyMap
    /\ file.exists /\ file.contents = serde_yaml_to_string(EmptyMap)
    /\ file.mode = "0600"

\* Entry k holds a process id that no live process has.
Stale(k) ==
    /\ k \in DOMAIN connections
    /\ connections[k].pid /= None
    /\ Unwrap(connections[k].pid) \notin alive

\* The operations that terminate or reconnect the tunnel of key k.
Touches(k) ==
    /\ last'.op \in {"reconnect", "reconnectAll", "disconnect",
                     "disconnectAll", "drop", "dropAll"}
    /\ last'.key = None \/ last'.key = Some(k)

\* C14: list, and the status() and get_pid() it calls for every row, leave
\* the registry and its stored process ids as they were, and signal and
\* spawn nothing; a row shows the stored process id exactly when it shows
\* Connected, and no process id whenever it shows Disconnected; a stale
\* process id stays stored until an operation that terminates or reconnects
\* its key.
C14_ReadOnly ==
    [][/\ (OpStep /\ last'.op = "list") =>
            /\ UNCHANGED <<connections, nextPid, file>>
            /\ last'.spawns = << >> /\ last'.kills = << >>
            /\ DOMAIN last'.rows = DOMAIN connections
            /\ \A k \in DOMAIN connections :
                  /\ last'.rows[k].status = "Disconnected"
                        => last'.rows[k].pid = None
                  /\ last'.rows[k].status = "Connected"
                        => last'.rows[k].pid = connections[k].pid
       /\ \A k \in Keys :
            (Stale(k) /\ ~(/\ k \in DOMAIN connections'
                           /\ connections'[k].pid = connections[k].pid))
               => (OpStep /\ Touches(k))]_vars

\* C15: UrlParts::parse returns the written port and the value of the first
\* token parameter for every link that is a URL and has both, and returns
\* the error InvalidLink, which create hands to its caller with nothing
\* changed, for every link that is not a URL, has no written port or has no
\* token.
C15_ParseTotal ==
    [][(OpStep /\ last'.op = "create") =>
         LET text == LinkText(last'.link)
             parsed == UrlParts_parse(last'.link)
         IN IF text.url /\ text.port /= None /\ text.token /= None
            THEN parsed = [res |-> "Ok", port |-> text.port,
                           token |-> text.token]
            ELSE /\ parsed.res = "InvalidLink"
                 /\ last'.res = "InvalidLink"
                 /\ last'.spawns = << >>
                 /\ UNCHANGED <<connections, alive, nextPid, signalled, file>>]_vars

C17_PersistedEqualsMemory ==
    (last.op \in {"new", "rc", "dc", "drop"} /\ last.res = "Ok")
       => /\ Loaded = connections
          /\ (last.op = "dc" /\ last.key /= None)
                => Loaded[LastKey].pid = None

\* The errors of the registry operations and of the arguments of drop.
OperationErrors ==
    {"InvalidLink", "DuplicateKey", "KeyNotFound", "SpawnError",
     "SignalError", "ArgumentError"}

\* C18: an invocation whose operation returns an error (InvalidLink,
\* DuplicateKey, KeyNotFound, SpawnError, SignalError, or drop without key
\* or --all) returns it without calling save: the operation started on
\* the registry load() read from the file or bootstrapped into it, and the
\* file stays as it was then, whatever the operation did to the registry
\* in memory.
C18_FailedOpNotSaved ==
    [][/\ (pc' = AtOp /\ pc /= AtOp)
          => (/\ load(file', "none").res = "Ok"
              /\ ~load(file', "none").saved
              /\ load(file', "none").connections = connections')
       /\ (last'.res \in OperationErrors /\ last' /= last)
          => (/\ pc = AtOp
              /\ pc' = Done
              /\ ~last'.saved
              /\ file' = file)]_vars

\* A drop of all entries removed both from memory, terminated one and
\* failed to signal the other, and the file still holds both.
C18_Witness ==
    /\ pc = Done
    /\ last.op = "drop" /\ last.all /\ last.res = "SignalError"
    /\ Len(last.kills) = 2 /\ last.kills[1].ok /\ ~last.kills[2].ok
    /\ connections = EmptyMap
    /\ Cardinality(DOMAIN Loaded) = 2

\* C19: after invocations of new, list, rc, dc and drop that all returned
\* Ok, every live process that the tool spawned and did not signal (the
\* shell whose id was recorded, and the ssh client that shell started) is
\* held by the registry in the file: an entry has the process id of its
\* shell.
C19_NoOrphans ==
    \A p \in (alive \ signalled) \cup clients :
       \E k \in DOMAIN Loaded : Loaded[k].pid = Some(p)

\* The file holds registry content: it is there and not blank.
HoldsContent(f) == f.exists /\ f.contents.kind /= "blank"

\* C20: save creates or truncates the file, then sets its mode to 0600,
\* then writes: content gets into the file only in a step that finds it
\* truncated with mode 0600, so a file that holds content has mode 0600 at
\* every step; and when setting the mode fails, save returns with the file
\* left empty, which the next load() reads as the empty registry.
C20_SaveOrder ==
    [][/\ HoldsContent(file') => file'.mode = "0600"
       /\ (HoldsContent(file') /\ file'.contents /= file.contents)
             => /\ pc.at = "save"
                /\ file.exists /\ file.contents = BlankContents
                /\ file.mode = "0600"
       /\ (pc.at = "save" /\ last'.res = "PermissionError")
             => /\ pc' = Done
                /\ file'.exists /\ file'.contents = BlankContents
                /\ load(file', "none").res = "Ok"
                /\ load(file', "none").connections = EmptyMap]_vars

\* The save that ends a `new` failed to set the mode: the tunnel runs, the
\* registry in memory holds it, and the file is empty.
C20_Witness ==
    /\ pc = Done
    /\ last.op = "new" /\ last.res = "PermissionError"
    /\ connections /= EmptyMap
    /\ file.exists /\ file.contents = BlankContents

====
